---- MODULE Spec2Model ----
(***************************************************************************)
(* StackVec<T, N> of src/vec/stack_vec.rs: a vector that lives in an       *)
(* inline array of N slots (Unallocated) and moves to a heap buffer        *)
(* (Allocated) on the first push beyond N.                                 *)
(*                                                                         *)
(* Elements are opaque owned values with a finalizer (T: Drop).  The k-th  *)
(* pushed element is the number k, so every element is distinct and its    *)
(* number is its place in insertion order.  A slot is <<>> while it holds  *)
(* no value and <<e>> while it holds the bits of element e; Option<T> is   *)
(* modelled the same way.  Slots are indexed from 0 as in the source.      *)
(***************************************************************************)
EXTENDS Integers, Sequences, FiniteSets

\* const N: the inline capacity of StackVec<T, N>
N == 2
\* number of push calls explored together with every other call
MaxPush == 5
\* number of push calls explored when nothing else changes the vector
MaxGrow == 13

\* keys 1..MaxKey of the BinaryTree, and number of insert calls explored
MaxKey == 3
MaxInsert == 4
\* const L: the number of levels of SkipList<T, L>, and number of insert calls
L == 2
MaxSkipInsert == 3

Elems == 1..MaxGrow
Indices == 0..MaxPush

VARIABLES
    self,       \* the StackVec
    pushed,     \* k: number of push calls made
    dropCount,  \* how often each element was finalized by the container
    handed,     \* how often each element was returned to the caller
    fin,        \* the elements the last call finalized, in order
    lastOp,     \* the last call
    arg,        \* its index argument (0 when it has none)
    ret,        \* the Option it returned
    panicked,   \* whether it panicked
    phase,      \* which kinds of calls were made so far
    j,          \* number of pop calls that returned an element
    popEmpty,   \* whether pop was called on an empty vector
    popped,     \* the elements returned by the pop calls, in order
    events,     \* what Drop for StackVec did during the last call, in order
    aborted,    \* whether an allocation failed and ended the process
    unwinding,  \* whether a panic of an element finalizer has left clear
    tree,       \* the BinaryTree
    tcalls,     \* number of insert calls made on it
    top,        \* the last call made on it
    tkey,       \* the key of the last call
    tret,       \* the Option the last call returned
    tpanicked,  \* whether the last call panicked
    tmap,       \* for each key, the value of the most recent insert, if any
    tfirst,     \* for each key, the key object of its first insert, if any
    skHeap,     \* the SkipListNodes allocated so far; a pointer is an index
    skHead,     \* SkipList::head
    skLen       \* SkipList::len

vecVars == <<self, pushed, dropCount, handed, fin, lastOp, arg, ret, panicked,
             phase, j, popEmpty, popped, events, aborted, unwinding>>
treeVars == <<tree, tcalls, top, tkey, tret, tpanicked, tmap, tfirst>>
skipVars == <<skHeap, skHead, skLen>>

vars == <<vecVars, treeVars, skipVars>>

----------------------------------------------------------------------------
\* MaybeUninit::uninit(), MaybeUninit::new(value), Option::None, Option::Some
uninit == <<>>
MaybeUninit_new(value) == <<value>>
None == <<>>
Some(value) == <<value>>

\* alloc::alloc::alloc(Layout::array::<T>(n)): n slots holding no value
alloc(n) == [i \in 0..(n - 1) |-> uninit]

\* realloc as a fresh allocation whose contents are not carried over
realloc_no_copy(ptr, oldn, newn) == [i \in 0..(newn - 1) |-> uninit]

\* alloc::alloc::realloc(ptr, Layout::array::<T>(oldn), size_of::<T>() * newn):
\* the first min(oldn, newn) slots keep their bits, the rest hold no value
realloc(ptr, oldn, newn) ==
    [i \in 0..(newn - 1) |-> IF i < oldn THEN ptr[i] ELSE uninit]

\* std::ptr::copy(src, dst, count): bitwise copy of count slots; src keeps its bits
copy(src, dst, count) ==
    [i \in DOMAIN dst |-> IF i < count THEN src[i] ELSE dst[i]]

\* ptr.add(i).write(value)
write(ptr, i, value) == [ptr EXCEPT ![i] = <<value>>]

\* the elements of slots [0, n) in index order (a slot without a value gives none)
RECURSIVE Prefix(_, _)
Prefix(data, n) ==
    IF n = 0 THEN <<>> ELSE Prefix(data, n - 1) \o data[n - 1]

----------------------------------------------------------------------------
\* StackVec::new
new == [tag |-> "Unallocated", data |-> [i \in 0..(N - 1) |-> uninit], len |-> 0]

\* StackVec::len
len(s) == s.len

\* StackVec::is_empty
is_empty(s) == len(s) = 0

\* StackVec::capacity
capacity(s) == IF s.tag = "Unallocated" THEN N ELSE s.cap

\* StackVec::is_allocated
is_allocated(s) == s.tag = "Allocated"

\* a slice view as long as the capacity instead of len
deref_whole_buffer(s) ==
    [i \in 0..((IF s.tag = "Unallocated" THEN N ELSE s.cap) - 1) |-> s.data[i]]

\* Deref for StackVec: slice::from_raw_parts(data, len)
deref(s) == [i \in 0..(s.len - 1) |-> s.data[i]]

\* DerefMut for StackVec: slice::from_raw_parts_mut(data, len)
deref_mut(s) == [i \in 0..(s.len - 1) |-> s.data[i]]

\* AsRef<[T]> for StackVec
as_ref(s) == deref(s)

\* Drop for StackVec: the elements finalized, in the order they are finalized
\* (data[..len] of either representation; the heap buffer is then released)
drop(s) == Prefix(s.data, s.len)

\* Drop that releases the heap buffer before it finalizes the elements
drop_events_dealloc_first(s) ==
    (IF s.tag = "Allocated" THEN << <<"dealloc", s.cap>> >> ELSE <<>>)
    \o [i \in 1..Len(drop(s)) |-> <<"drop_in_place", drop(s)[i]>>]

\* Drop for StackVec: the finalizations and the dealloc(ptr, Layout::array(cap))
\* it makes, in order
drop_events(s) ==
    [i \in 1..Len(drop(s)) |-> <<"drop_in_place", drop(s)[i]>>]
    \o (IF s.tag = "Allocated" THEN << <<"dealloc", s.cap>> >> ELSE <<>>)

\* grow by a single slot instead of doubling
grow_by_one(v) ==
    [v EXCEPT !.data = realloc(v.data, v.cap, v.cap + 1),
              !.cap = v.cap + 1]

\* AllocatedVec::grow
grow(v) ==
    [v EXCEPT !.data = realloc(v.data, v.cap, v.cap * 2),
              !.cap = v.cap * 2]

\* AllocatedVec::push
AllocatedVec_push(v, value) ==
    LET g == IF v.len = v.cap THEN grow(v) ELSE v
    IN  [g EXCEPT !.data = write(g.data, g.len, value),
                  !.len = g.len + 1]

\* the guard one off: the last inline slot is never used
has_room_off_by_one(v) == v.len + 1 < N

\* StackVec::push, first arm's guard: Self::Unallocated(v) if v.len < N
has_room(v) == v.len < N

\* the first heap buffer sized by doubling instead of len + 1
to_heap_doubled(v, value) ==
    LET ptr == write(copy(v.data, alloc(v.len * 2), v.len), v.len, value)
    IN  [tag |-> "Allocated", data |-> ptr, cap |-> v.len * 2, len |-> v.len + 1]

\* StackVec::push, second arm: the heap vector built from a full inline vector
to_heap(v, value) ==
    LET ptr == write(copy(v.data, alloc(v.len + 1), v.len), v.len, value)
    IN  [tag |-> "Allocated", data |-> ptr, cap |-> v.len + 1, len |-> v.len + 1]

\* StackVec::push: the new vector, and the elements the call finalizes.
\* In the second arm `let _ = core::mem::replace(self, ..)` drops the value
\* that replace returns, the old Unallocated vector with len == N, whose
\* Drop finalizes data[..len].
push(s, value) ==
    IF s.tag = "Unallocated" /\ has_room(s) THEN
        [self |-> [s EXCEPT !.data[s.len] = MaybeUninit_new(value),
                            !.len = s.len + 1],
         fin |-> <<>>]
    ELSE IF s.tag = "Unallocated" THEN
        [self |-> to_heap(s, value), fin |-> drop(s)]
    ELSE
        [self |-> AllocatedVec_push(s, value), fin |-> <<>>]

\* the arms of push that ask the allocator for memory: alloc in the second arm
\* of StackVec::push, realloc in AllocatedVec::grow
needs_alloc(s) ==
    \/ s.tag = "Unallocated" /\ ~has_room(s)
    \/ s.tag = "Allocated" /\ s.len = s.cap

\* a null pointer that is not checked: push returns without having appended
alloc_error_unchecked(s) == [self |-> s, aborted |-> FALSE]

\* alloc or realloc returned null: handle_alloc_error(layout) ends the process.
\* Both calls come before the first write to self.
alloc_error(s) == [self |-> s, aborted |-> TRUE]

\* pop that forgets to decrement len on the heap
pop_no_dec(s) ==
    IF s.tag = "Unallocated" THEN
        IF s.len > 0 THEN
            [self |-> [s EXCEPT !.data[s.len - 1] = uninit, !.len = s.len - 1],
             ret |-> s.data[s.len - 1]]
        ELSE [self |-> s, ret |-> None]
    ELSE
        IF s.len > 0 THEN
            [self |-> s, ret |-> s.data[s.len - 1]]
        ELSE [self |-> s, ret |-> None]

\* pop that reads the heap buffer at len instead of len - 1 after decrementing
pop_wrong_slot(s) ==
    IF s.tag = "Unallocated" THEN
        IF s.len > 0 THEN
            [self |-> [s EXCEPT !.data[s.len - 1] = uninit, !.len = s.len - 1],
             ret |-> s.data[s.len - 1]]
        ELSE [self |-> s, ret |-> None]
    ELSE
        IF s.len > 1 THEN
            [self |-> [s EXCEPT !.len = s.len - 1],
             ret |-> s.data[s.len - 2]]
        ELSE IF s.len > 0 THEN
            [self |-> [s EXCEPT !.len = s.len - 1],
             ret |-> s.data[s.len - 1]]
        ELSE [self |-> s, ret |-> None]

\* pop that leaves the bits in the vacated inline slot
pop_keep_slot(s) ==
    IF s.len > 0 THEN
        [self |-> [s EXCEPT !.len = s.len - 1], ret |-> s.data[s.len - 1]]
    ELSE [self |-> s, ret |-> None]

\* pop that gives unused heap slots back (shrinks the buffer to the old len)
pop_shrinks(s) ==
    IF s.tag = "Unallocated" THEN
        IF s.len > 0 THEN
            [self |-> [s EXCEPT !.data[s.len - 1] = uninit, !.len = s.len - 1],
             ret |-> s.data[s.len - 1]]
        ELSE [self |-> s, ret |-> None]
    ELSE
        IF s.len > 0 THEN
            [self |-> [s EXCEPT !.data = realloc(s.data, s.cap, s.len),
                                !.cap = s.len,
                                !.len = s.len - 1],
             ret |-> s.data[s.len - 1]]
        ELSE [self |-> s, ret |-> None]

\* StackVec::pop: the new vector and the returned Option
pop(s) ==
    IF s.tag = "Unallocated" THEN
        IF s.len > 0 THEN
            [self |-> [s EXCEPT !.data[s.len - 1] = uninit, !.len = s.len - 1],
             ret |-> s.data[s.len - 1]]
        ELSE [self |-> s, ret |-> None]
    ELSE
        IF s.len > 0 THEN
            [self |-> [s EXCEPT !.len = s.len - 1],
             ret |-> s.data[s.len - 1]]
        ELSE [self |-> s, ret |-> None]

\* swap_remove that takes the element out but does not move the last one in
swap_remove_no_move(s, index) ==
    IF index >= len(s) THEN [self |-> s, ret |-> None]
    ELSE IF ~is_empty(s) /\ index = len(s) - 1 THEN [self |-> s, ret |-> None]
    ELSE IF s.tag = "Unallocated" THEN
        IF s.len > 1 THEN
            LET d1 == [s.data EXCEPT ![s.len - 1] = uninit]
            IN  [self |-> [s EXCEPT !.data = d1, !.len = s.len - 1],
                 ret |-> d1[index]]
        ELSE [self |-> s, ret |-> None]
    ELSE
        IF s.len > 1 THEN
            [self |-> [s EXCEPT !.len = s.len - 1], ret |-> s.data[index]]
        ELSE [self |-> s, ret |-> None]

\* swap_remove without the rejection of the last index: it acts as pop there
swap_remove_last_ok(s, index) ==
    IF index >= len(s) THEN [self |-> s, ret |-> None]
    ELSE IF s.tag = "Unallocated" THEN
        LET back == s.data[s.len - 1]
            d1 == [s.data EXCEPT ![s.len - 1] = uninit]
        IN  [self |-> [s EXCEPT !.data = IF index = s.len - 1 THEN d1
                                         ELSE [d1 EXCEPT ![index] = back],
                                !.len = s.len - 1],
             ret |-> s.data[index]]
    ELSE
        LET back == s.data[s.len - 1]
        IN  [self |-> [s EXCEPT !.data[index] = back, !.len = s.len - 1],
             ret |-> s.data[index]]

\* StackVec::swap_remove: the new vector and the returned Option
swap_remove(s, index) ==
    IF index >= len(s) THEN [self |-> s, ret |-> None]
    ELSE IF ~is_empty(s) /\ index = len(s) - 1 THEN [self |-> s, ret |-> None]
    ELSE IF s.tag = "Unallocated" THEN
        IF s.len > 1 THEN
            LET back == s.data[s.len - 1]
                d1 == [s.data EXCEPT ![s.len - 1] = uninit]
            IN  [self |-> [s EXCEPT !.data = [d1 EXCEPT ![index] = back],
                                    !.len = s.len - 1],
                 ret |-> d1[index]]
        ELSE [self |-> s, ret |-> None]
    ELSE
        IF s.len > 1 THEN
            LET back == s.data[s.len - 1]
            IN  [self |-> [s EXCEPT !.data[index] = back, !.len = s.len - 1],
                 ret |-> s.data[index]]
        ELSE [self |-> s, ret |-> None]

\* clear that puts a heap vector back into the inline representation
clear_to_inline(s) ==
    [self |-> [tag |-> "Unallocated", data |-> [i \in 0..(N - 1) |-> uninit], len |-> 0],
     fin |-> Prefix(s.data, s.len)]

\* clear that resets len without finalizing the elements
clear_no_drop(s) ==
    IF s.tag = "Unallocated" THEN
        [self |-> [s EXCEPT !.data = [i \in 0..(N - 1) |-> uninit], !.len = 0],
         fin |-> <<>>]
    ELSE
        [self |-> [s EXCEPT !.len = 0], fin |-> <<>>]

\* StackVec::clear: the new vector and the elements finalized, in order
clear(s) ==
    IF s.tag = "Unallocated" THEN
        [self |-> [s EXCEPT !.data = [i \in 0..(N - 1) |-> uninit], !.len = 0],
         fin |-> Prefix(s.data, s.len)]
    ELSE
        [self |-> [s EXCEPT !.len = 0],
         fin |-> Prefix(s.data, s.len)]

\* StackVec::clear when the finalizer of the element at index p panics: the
\* for_each has finalized slots [0, p) and has run the finalizer of slot p;
\* the panic unwinds out of clear before `v.data = ..` and `v.len = 0`.
clear_panic(s, p) ==
    [self |-> s, fin |-> Prefix(s.data, p + 1)]

\* a bounds check against the capacity instead of len
index_checks_capacity(s, i) ==
    IF i >= (IF s.tag = "Unallocated" THEN N ELSE s.cap)
    THEN [ret |-> None, panic |-> TRUE]
    ELSE [ret |-> s.data[i], panic |-> FALSE]

\* Index<usize> for StackVec: the element referred to, or a panic
index(s, i) ==
    IF i >= s.len THEN [ret |-> None, panic |-> TRUE]
    ELSE [ret |-> s.data[i], panic |-> FALSE]

\* IndexMut<usize> for StackVec: the element referred to, or a panic
index_mut(s, i) ==
    IF i >= s.len THEN [ret |-> None, panic |-> TRUE]
    ELSE [ret |-> s.data[i], panic |-> FALSE]

----------------------------------------------------------------------------
\* bookkeeping of what happened to each element

\* dropCount after the elements of the sequence f were finalized once more
Finalize(dc, f) ==
    [e \in Elems |-> dc[e] + Cardinality({i \in 1..Len(f) : f[i] = e})]

\* handed after the Option r was returned to the caller
HandBack(h, r) ==
    [e \in Elems |-> h[e] + Cardinality({i \in 1..Len(r) : r[i] = e})]

\* which kinds of calls were made so far: "pushes" (push only), "pops" (pushes,
\* then pops), "pushpop" (push and pop in any order), "any" (clear or
\* swap_remove were called too; j, popEmpty and popped are then no longer kept)
AfterPush(p) == IF p = "pushes" THEN "pushes"
                ELSE IF p = "any" THEN "any" ELSE "pushpop"
AfterPop(p) == IF p \in {"pushes", "pops"} THEN "pops" ELSE p

Alive == self.tag # "Dropped" /\ ~aborted

----------------------------------------------------------------------------
\* BinaryTree<K, V> of src/tree/binary_tree.rs

\* K: a key is <<k, t>>; PartialOrd and Eq look at k only, so that two equal
\* keys can still be told apart by t.  V: a small set of values.
Keys == (1..MaxKey) \X (0..1)
Values == 1..2

\* K: PartialOrd + Eq
key_lt(a, b) == a[1] < b[1]
key_gt(a, b) == a[1] > b[1]
key_eq(a, b) == a[1] = b[1]

\* BinaryTreeNode { key, value, children: (None, None) }
leaf(key, value) == [key |-> key, value |-> value, children |-> <<None, None>>]

\* BinaryTree::new
BinaryTree_new == [root |-> None, len |-> 0]

\* node insert without the arm for an equal key: an equal key goes right
RECURSIVE BinaryTreeNode_insert_no_eq(_, _, _)
BinaryTreeNode_insert_no_eq(node, key, value) ==
    IF key_lt(key, node.key) THEN
        IF node.children[1] # None THEN
            LET r == BinaryTreeNode_insert_no_eq(node.children[1][1], key, value)
            IN  [node |-> [node EXCEPT !.children[1] = Some(r.node)], ret |-> r.ret]
        ELSE
            [node |-> [node EXCEPT !.children[1] = Some(leaf(key, value))],
             ret |-> None]
    ELSE
        IF node.children[2] # None THEN
            LET r == BinaryTreeNode_insert_no_eq(node.children[2][1], key, value)
            IN  [node |-> [node EXCEPT !.children[2] = Some(r.node)], ret |-> r.ret]
        ELSE
            [node |-> [node EXCEPT !.children[2] = Some(leaf(key, value))],
             ret |-> None]

\* BinaryTreeNode::insert: the node afterwards and the returned Option
RECURSIVE BinaryTreeNode_insert(_, _, _)
BinaryTreeNode_insert(node, key, value) ==
    IF key_lt(key, node.key) THEN
        IF node.children[1] # None THEN
            LET r == BinaryTreeNode_insert(node.children[1][1], key, value)
            IN  [node |-> [node EXCEPT !.children[1] = Some(r.node)], ret |-> r.ret]
        ELSE
            [node |-> [node EXCEPT !.children[1] = Some(leaf(key, value))],
             ret |-> None]
    ELSE IF key_gt(key, node.key) THEN
        IF node.children[2] # None THEN
            LET r == BinaryTreeNode_insert(node.children[2][1], key, value)
            IN  [node |-> [node EXCEPT !.children[2] = Some(r.node)], ret |-> r.ret]
        ELSE
            [node |-> [node EXCEPT !.children[2] = Some(leaf(key, value))],
             ret |-> None]
    ELSE
        [node |-> [node EXCEPT !.value = value], ret |-> Some(node.value)]

\* insert that counts every call, also one that replaces a value
BinaryTree_insert_counts_all(t, key, value) ==
    LET r == IF t.root # None
             THEN LET n == BinaryTreeNode_insert(t.root[1], key, value)
                  IN  [root |-> Some(n.node), result |-> n.ret]
             ELSE [root |-> Some(leaf(key, value)), result |-> None]
    IN  [tree |-> [root |-> r.root, len |-> t.len + 1], ret |-> r.result]

\* BinaryTree::insert: the tree afterwards and the returned Option
BinaryTree_insert(t, key, value) ==
    LET r == IF t.root # None
             THEN LET n == BinaryTreeNode_insert(t.root[1], key, value)
                  IN  [root |-> Some(n.node), result |-> n.ret]
             ELSE [root |-> Some(leaf(key, value)), result |-> None]
    IN  [tree |-> [root |-> r.root,
                   len |-> IF r.result = None THEN t.len + 1 ELSE t.len],
         ret |-> r.result]

\* get that descends to the right for a smaller key and to the left otherwise
RECURSIVE BinaryTreeNode_get_swapped(_, _)
BinaryTreeNode_get_swapped(node, key) ==
    IF key_eq(key, node.key) THEN Some(node.value)
    ELSE IF key_lt(key, node.key) THEN
        IF node.children[2] # None
        THEN BinaryTreeNode_get_swapped(node.children[2][1], key) ELSE None
    ELSE
        IF node.children[1] # None
        THEN BinaryTreeNode_get_swapped(node.children[1][1], key) ELSE None

\* BinaryTreeNode::get
RECURSIVE BinaryTreeNode_get(_, _)
BinaryTreeNode_get(node, key) ==
    IF key_eq(key, node.key) THEN Some(node.value)
    ELSE IF key_lt(key, node.key) THEN
        IF node.children[1] # None
        THEN BinaryTreeNode_get(node.children[1][1], key) ELSE None
    ELSE
        IF node.children[2] # None
        THEN BinaryTreeNode_get(node.children[2][1], key) ELSE None

\* BinaryTree::get
BinaryTree_get(t, key) ==
    IF t.root # None THEN BinaryTreeNode_get(t.root[1], key) ELSE None

\* Index<&K> for BinaryTree: get(index).expect(..)
BinaryTree_index(t, key) ==
    LET r == BinaryTree_get(t, key)
    IN  [ret |-> r, panic |-> r = None]

\* BinaryTree::len
BinaryTree_len(t) == t.len

\* the keys stored in the nodes of a subtree
RECURSIVE NodeKeys(_)
NodeKeys(child) ==
    IF child = None THEN {}
    ELSE {child[1].key} \cup NodeKeys(child[1].children[1])
                       \cup NodeKeys(child[1].children[2])

TreeInit ==
    /\ tree = BinaryTree_new
    /\ tcalls = 0
    /\ top = "new"
    /\ tkey = <<1, 0>>
    /\ tret = None
    /\ tpanicked = FALSE
    /\ tmap = [k \in 1..MaxKey |-> None]
    /\ tfirst = [k \in 1..MaxKey |-> None]

\* tree.insert(key, value)
TreeInsert ==
    /\ tcalls < MaxInsert
    /\ \E key \in Keys, value \in Values :
         LET r == BinaryTree_insert(tree, key, value)
         IN  /\ tree' = r.tree
             /\ tret' = r.ret
             /\ tkey' = key
             /\ tmap' = [tmap EXCEPT ![key[1]] = Some(value)]
             /\ tfirst' = IF tfirst[key[1]] = None
                          THEN [tfirst EXCEPT ![key[1]] = Some(key)]
                          ELSE tfirst
    /\ tcalls' = tcalls + 1
    /\ top' = "insert"
    /\ tpanicked' = FALSE
    /\ UNCHANGED <<vecVars, skipVars>>

\* tree.get(&key)
TreeGet ==
    /\ \E key \in Keys :
         /\ tret' = BinaryTree_get(tree, key)
         /\ tkey' = key
    /\ top' = "get"
    /\ tpanicked' = FALSE
    /\ UNCHANGED <<tree, tcalls, tmap, tfirst>>
    /\ UNCHANGED <<vecVars, skipVars>>

\* &tree[&key]
TreeIndex ==
    /\ \E key \in Keys :
         LET r == BinaryTree_index(tree, key)
         IN  /\ tret' = r.ret
             /\ tpanicked' = r.panic
             /\ tkey' = key
    /\ top' = "index"
    /\ UNCHANGED <<tree, tcalls, tmap, tfirst>>
    /\ UNCHANGED <<vecVars, skipVars>>

----------------------------------------------------------------------------
\* SkipList<T, L> of src/list/skip.rs

\* T: a small set of elements
SkipElems == 1..2

\* [Self::HEAD_INIT_VALUE; L]
no_links == [k \in 0..(L - 1) |-> None]

\* SkipList::new
SkipList_new == [head |-> no_links, len |-> 0]

\* the loop of SkipList::insert that draws the level: coins[i] is the outcome
\* of the i-th `random::<f32>() < 0.5`
RECURSIVE draw_level(_, _)
draw_level(coins, level) ==
    IF coins # <<>> /\ Head(coins) /\ level <= L
    THEN draw_level(Tail(coins), level + 1)
    ELSE level

\* SkipList::insert: the list and the heap afterwards.  The node is allocated
\* and written; the loop `for k in (0..L).rev() {}` has an empty body, and
\* neither head nor len is assigned.
SkipList_insert(list, heap, element, coins) ==
    LET level == draw_level(coins, 0)
        new_node == [value |-> element, level |-> level, next |-> no_links]
    IN  [list |-> list, heap |-> Append(heap, new_node)]

\* the nodes that can be reached from the head links
RECURSIVE ReachableFrom(_, _, _)
ReachableFrom(ptrs, heap, fuel) ==
    IF fuel = 0 THEN ptrs
    ELSE ReachableFrom(
            ptrs \cup {heap[p].next[k][1] :
                          <<p, k>> \in {q \in ptrs \X (0..(L - 1)) :
                                           heap[q[1]].next[q[2]] # None}},
            heap, fuel - 1)

Reachable(head, heap) ==
    ReachableFrom({head[k][1] : k \in {i \in 0..(L - 1) : head[i] # None}},
                  heap, Len(heap))

SkipInit ==
    /\ skHeap = <<>>
    /\ skHead = SkipList_new.head
    /\ skLen = SkipList_new.len

\* list.insert(element), with the outcomes of the random draws
SkipInsert ==
    /\ Len(skHeap) < MaxSkipInsert
    /\ \E element \in SkipElems, coins \in [1..(L + 2) -> BOOLEAN] :
         LET r == SkipList_insert([head |-> skHead, len |-> skLen], skHeap,
                                  element, coins)
         IN  /\ skHead' = r.list.head
             /\ skLen' = r.list.len
             /\ skHeap' = r.heap
    /\ UNCHANGED <<vecVars, treeVars>>

----------------------------------------------------------------------------
Init ==
    /\ self = new
    /\ pushed = 0
    /\ dropCount = [e \in Elems |-> 0]
    /\ handed = [e \in Elems |-> 0]
    /\ fin = <<>>
    /\ lastOp = "new"
    /\ arg = 0
    /\ ret = None
    /\ panicked = FALSE
    /\ phase = "pushes"
    /\ j = 0
    /\ popEmpty = FALSE
    /\ popped = <<>>
    /\ events = <<>>
    /\ aborted = FALSE
    /\ unwinding = FALSE
    /\ TreeInit
    /\ SkipInit

\* v.push(value), value being the next element, while fewer than bound were pushed
PushUpTo(bound) ==
    /\ Alive /\ ~unwinding
    /\ pushed < bound
    /\ LET r == push(self, pushed + 1)
       IN  /\ self' = r.self
           /\ fin' = r.fin
           /\ dropCount' = Finalize(dropCount, r.fin)
    /\ pushed' = pushed + 1
    /\ lastOp' = "push"
    /\ arg' = 0
    /\ ret' = None
    /\ panicked' = FALSE
    /\ phase' = AfterPush(phase)
    /\ popped' = <<>>
    /\ UNCHANGED <<handed, j, popEmpty>>
    /\ events' = (IF needs_alloc(self) /\ self.tag = "Unallocated"
                  THEN drop_events(self) ELSE <<>>)
    /\ UNCHANGED <<aborted, unwinding>>
    /\ UNCHANGED <<treeVars, skipVars>>

\* v.pop()
Pop ==
    /\ Alive /\ ~unwinding
    /\ LET r == pop(self)
       IN  /\ self' = r.self
           /\ ret' = r.ret
           /\ handed' = HandBack(handed, r.ret)
           /\ j' = IF phase = "any" THEN 0 ELSE j + Len(r.ret)
           /\ popped' = IF AfterPop(phase) = "pops" THEN popped \o r.ret ELSE <<>>
    /\ popEmpty' = IF phase = "any" THEN FALSE ELSE (popEmpty \/ is_empty(self))
    /\ fin' = <<>>
    /\ lastOp' = "pop"
    /\ arg' = 0
    /\ panicked' = FALSE
    /\ phase' = AfterPop(phase)
    /\ UNCHANGED <<pushed, dropCount>>
    /\ events' = <<>>
    /\ UNCHANGED <<aborted, unwinding>>
    /\ UNCHANGED <<treeVars, skipVars>>

\* v.swap_remove(index)
SwapRemove ==
    /\ Alive /\ ~unwinding
    /\ \E i \in Indices :
         LET r == swap_remove(self, i)
         IN  /\ self' = r.self
             /\ ret' = r.ret
             /\ handed' = HandBack(handed, r.ret)
             /\ arg' = i
    /\ lastOp' = "swap_remove"
    /\ fin' = <<>>
    /\ panicked' = FALSE
    /\ phase' = "any"
    /\ j' = 0
    /\ popEmpty' = FALSE
    /\ popped' = <<>>
    /\ UNCHANGED <<pushed, dropCount>>
    /\ events' = <<>>
    /\ UNCHANGED <<aborted, unwinding>>
    /\ UNCHANGED <<treeVars, skipVars>>

\* v.clear()
Clear ==
    /\ Alive /\ ~unwinding
    /\ LET r == clear(self)
       IN  /\ self' = r.self
           /\ fin' = r.fin
           /\ dropCount' = Finalize(dropCount, r.fin)
    /\ ret' = None
    /\ lastOp' = "clear"
    /\ arg' = 0
    /\ panicked' = FALSE
    /\ phase' = "any"
    /\ j' = 0
    /\ popEmpty' = FALSE
    /\ popped' = <<>>
    /\ UNCHANGED <<pushed, handed>>
    /\ events' = <<>>
    /\ UNCHANGED <<aborted, unwinding>>
    /\ UNCHANGED <<treeVars, skipVars>>

\* v.clear() when the finalizer of the element at index p panics.  The panic
\* unwinds through the caller, and the vector is destroyed when its owner's
\* frame is left.  The calls of a caller that catches the panic are not
\* explored separately: the panic changes no field of self, so they are the
\* calls explored from the state before the clear.
ClearPanic ==
    /\ Alive /\ ~unwinding
    /\ \E p \in 0..(len(self) - 1) :
         LET r == clear_panic(self, p)
         IN  /\ self' = r.self
             /\ fin' = r.fin
             /\ dropCount' = Finalize(dropCount, r.fin)
             /\ arg' = p
    /\ unwinding' = TRUE
    /\ ret' = None
    /\ lastOp' = "clear"
    /\ panicked' = TRUE
    /\ phase' = "any"
    /\ j' = 0
    /\ popEmpty' = FALSE
    /\ popped' = <<>>
    /\ events' = <<>>
    /\ UNCHANGED <<pushed, handed, aborted>>
    /\ UNCHANGED <<treeVars, skipVars>>

\* &v[i]
Index ==
    /\ Alive /\ ~unwinding
    /\ \E i \in Indices :
         LET r == index(self, i)
         IN  /\ ret' = r.ret
             /\ panicked' = r.panic
             /\ arg' = i
    /\ lastOp' = "index"
    /\ fin' = <<>>
    /\ UNCHANGED <<self, pushed, dropCount, handed, phase, j, popEmpty, popped>>
    /\ events' = <<>>
    /\ UNCHANGED <<aborted, unwinding>>
    /\ UNCHANGED <<treeVars, skipVars>>

\* &mut v[i]: the caller gets a reference to the element and may change the
\* element in place; which element sits in the slot does not change
IndexMut ==
    /\ Alive /\ ~unwinding
    /\ \E i \in Indices :
         LET r == index_mut(self, i)
         IN  /\ ret' = r.ret
             /\ panicked' = r.panic
             /\ arg' = i
    /\ lastOp' = "index_mut"
    /\ fin' = <<>>
    /\ UNCHANGED <<self, pushed, dropCount, handed, phase, j, popEmpty, popped>>
    /\ events' = <<>>
    /\ UNCHANGED <<aborted, unwinding>>
    /\ UNCHANGED <<treeVars, skipVars>>

\* v.push(value) when the allocator has no memory left
PushAllocFail ==
    /\ Alive /\ ~unwinding
    /\ pushed < MaxPush
    /\ needs_alloc(self)
    /\ LET r == alloc_error(self)
       IN  /\ self' = r.self
           /\ aborted' = r.aborted
    /\ lastOp' = "push"
    /\ arg' = 0
    /\ ret' = None
    /\ panicked' = FALSE
    /\ fin' = <<>>
    /\ events' = <<>>
    /\ UNCHANGED <<pushed, dropCount, handed, phase, j, popEmpty, popped, unwinding>>
    /\ UNCHANGED <<treeVars, skipVars>>

\* the vector goes out of scope: Drop for StackVec
Destroy ==
    /\ Alive
    /\ self' = [tag |-> "Dropped"]
    /\ fin' = drop(self)
    /\ dropCount' = Finalize(dropCount, drop(self))
    /\ ret' = None
    /\ lastOp' = "drop"
    /\ arg' = 0
    /\ panicked' = FALSE
    /\ UNCHANGED <<pushed, handed, phase, j, popEmpty, popped>>
    /\ events' = drop_events(self)
    /\ UNCHANGED <<aborted, unwinding>>
    /\ UNCHANGED <<treeVars, skipVars>>

Push == PushUpTo(MaxPush)

Next ==
    \/ Push \/ PushAllocFail \/ Pop \/ SwapRemove \/ Clear \/ ClearPanic
    \/ Index \/ IndexMut \/ Destroy

Spec == Init /\ [][Next]_vars

\* runs in which push is the only call that changes the vector
GrowPush == PushUpTo(MaxGrow)

NextGrow == GrowPush \/ Index \/ Destroy

SpecGrow == Init /\ [][NextGrow]_vars

\* the calls on a BinaryTree
NextTree == TreeInsert \/ TreeGet \/ TreeIndex

SpecTree == Init /\ [][NextTree]_vars

\* the calls on a SkipList
NextSkip == SkipInsert

SpecSkip == Init /\ [][NextSkip]_vars

----------------------------------------------------------------------------
\* the elements of a sequence, as a set
Range(f) == {f[i] : i \in 1..Len(f)}

\* the step is a call of push
PushStep == lastOp' = "push" /\ pushed' = pushed + 1

\* C1: the push that moves a full inline vector to the heap finalizes none of
\* the elements that now live in the heap buffer.
C1_TransitionFinalizesNothing ==
    (lastOp = "push" /\ is_allocated(self)) =>
        \A i \in 0..(len(self) - 1) : Range(self.data[i]) \cap Range(fin) = {}

\* C2: once the vector is destroyed, every pushed element was either handed
\* back to the caller exactly once and never finalized, or finalized exactly
\* once and never handed back.
C2_EachElementReleasedOnce ==
    self.tag = "Dropped" =>
        \A e \in 1..pushed :
            \/ handed[e] = 1 /\ dropCount[e] = 0
            \/ handed[e] = 0 /\ dropCount[e] = 1

\* C3: while only push was called and at most N times, the vector is
\* Unallocated and capacity() is N.
C3_InlineUpToN ==
    (Alive /\ phase = "pushes" /\ pushed <= N) =>
        (self.tag = "Unallocated" /\ capacity(self) = N)

C3_Witness ==
    Alive /\ phase = "pushes" /\ pushed = N /\ lastOp = "push" /\ len(self) = N

\* C4: a push on an Unallocated vector with len == N leaves an Allocated
\* vector with capacity N + 1 and len N + 1, the N prior elements at their
\* indices 0..N-1 and the pushed value at index N.
C4_TransitionToHeap ==
    [][(Alive /\ self.tag = "Unallocated" /\ len(self) = N /\ PushStep) =>
          /\ is_allocated(self')
          /\ capacity(self') = N + 1
          /\ len(self') = N + 1
          /\ \A i \in 0..(N - 1) : deref(self')[i] = deref(self)[i]
          /\ deref(self')[N] = Some(pushed')]_vars

C4_Witness ==
    Alive /\ lastOp = "push" /\ pushed = N + 1 /\ is_allocated(self)
          /\ deref(self) = [i \in 0..N |-> Some(i + 1)]

RECURSIVE Pow2(_)
Pow2(p) == IF p = 0 THEN 1 ELSE 2 * Pow2(p - 1)

\* c is the smallest value of N+1, 2(N+1), 4(N+1), ... that is >= M
SmallestGrowth(c, M) ==
    \E p \in 0..MaxGrow :
        /\ c = (N + 1) * Pow2(p)
        /\ c >= M
        /\ p > 0 => (N + 1) * Pow2(p - 1) < M

\* C5: after M > N pushes and no other call, capacity() is the smallest value
\* of N+1, 2(N+1), 4(N+1), ... that is >= M.
C5_CapacityAfterPushes ==
    (Alive /\ phase = "pushes" /\ pushed > N) =>
        SmallestGrowth(capacity(self), pushed)

C5_Witness ==
    Alive /\ phase = "pushes" /\ pushed = 2 * (N + 1) + 1
          /\ capacity(self) = 4 * (N + 1)

\* C6: no call other than destruction takes an Allocated vector out of the
\* Allocated state.
C6_HeapIsForever ==
    [][(is_allocated(self) /\ lastOp' # "drop") => is_allocated(self')]_vars

C6_Witness ==
    is_allocated(self) /\ len(self) = 0 /\ lastOp \in {"pop", "clear"}

\* C7: push(value) on a vector with contents s leaves contents s followed by
\* value, in every representation and branch.
C7_PushAppends ==
    [][(Alive /\ PushStep) =>
          /\ len(self') = len(self) + 1
          /\ \A i \in 0..(len(self) - 1) : deref(self')[i] = deref(self)[i]
          /\ deref(self')[len(self)] = Some(pushed')]_vars

C7_Witness ==
    Alive /\ lastOp = "push" /\ pushed = N + 2 /\ is_allocated(self)
          /\ len(self) = N + 2 /\ capacity(self) = 2 * (N + 1)

\* C8: while only push and pop were called and no pop met an empty vector,
\* len() is k - j; a pop on an empty vector returns None and leaves len() 0.
C8_LenIsPushesMinusPops ==
    /\ []((Alive /\ phase \in {"pushes", "pops", "pushpop"} /\ ~popEmpty) =>
             len(self) = pushed - j)
    /\ [][(Alive /\ is_empty(self) /\ lastOp' = "pop") =>
             (ret' = None /\ len(self') = 0)]_vars

C8_Witness ==
    Alive /\ phase = "pushpop" /\ ~popEmpty /\ j >= 2 /\ lastOp = "pop"
          /\ is_allocated(self) /\ len(self) > 0

\* C9: k pushes followed by pops return the elements in reverse order of
\* insertion, and after k pops len() is 0.
C9_PopReversesPush ==
    (Alive /\ phase = "pops") =>
        /\ \A i \in 1..Len(popped) : popped[i] = pushed - i + 1
        /\ Len(popped) = pushed => len(self) = 0

C9_Witness ==
    Alive /\ phase = "pops" /\ Len(popped) = pushed /\ pushed > N + 1
          /\ is_allocated(self)

\* C10: swap_remove(i) with i < L-1 returns the element at i, leaves length
\* L-1 with the former last element at i and every other index unchanged.
C10_SwapRemove ==
    [][(Alive /\ lastOp' = "swap_remove" /\ arg' < len(self) - 1) =>
          /\ ret' = deref(self)[arg']
          /\ len(self') = len(self) - 1
          /\ deref(self')[arg'] = deref(self)[len(self) - 1]
          /\ \A k \in 0..(len(self) - 2) :
                k # arg' => deref(self')[k] = deref(self)[k]]_vars

C10_Witness ==
    Alive /\ lastOp = "swap_remove" /\ ret # None /\ is_allocated(self)
          /\ arg + 1 < len(self)

\* C11: swap_remove(i) with i >= len() or i == len() - 1 returns None and
\* leaves contents, len(), capacity() and the representation unchanged.
C11_SwapRemoveRejects ==
    [][(Alive /\ lastOp' = "swap_remove" /\ arg' >= len(self) - 1) =>
          (ret' = None /\ self' = self)]_vars

C11_Witness ==
    Alive /\ lastOp = "swap_remove" /\ ret = None /\ is_allocated(self)
          /\ len(self) >= 2 /\ arg = len(self) - 1

\* C12: clear() (every finalizer returning) finalizes the elements of [0, len)
\* in index order and sets len() to 0; capacity() and is_allocated() are as
\* before.
C12_Clear ==
    [][(Alive /\ lastOp' = "clear" /\ ~panicked') =>
          /\ Len(fin') = len(self)
          /\ \A i \in 0..(len(self) - 1) : Some(fin'[i + 1]) = deref(self)[i]
          /\ len(self') = 0
          /\ capacity(self') = capacity(self)
          /\ is_allocated(self') = is_allocated(self)]_vars

C12_Witness ==
    Alive /\ lastOp = "clear" /\ ~panicked /\ is_allocated(self) /\ Len(fin) >= 2
          /\ len(self) = 0 /\ capacity(self) > N

\* C13: the slice views have length len(), their element i is the element at
\* index i of the container, and no slot at or beyond len() is part of them.
C13_SliceView ==
    Alive =>
        /\ DOMAIN deref(self) = 0..(len(self) - 1)
        /\ \A i \in DOMAIN deref(self) :
              /\ deref(self)[i] # uninit
              /\ ~index(self, i).panic
              /\ deref(self)[i] = index(self, i).ret
        /\ deref_mut(self) = deref(self)
        /\ as_ref(self) = deref(self)

C13_Witness ==
    Alive /\ is_allocated(self) /\ len(self) > 0 /\ len(self) < capacity(self)
          /\ self.data[len(self)] # uninit

\* C14: indexed read and write at i refer to the i-th element iff i < len();
\* for i >= len() they panic, also when i is below the capacity.
C14_IndexBounds ==
    (Alive /\ lastOp \in {"index", "index_mut"}) =>
        /\ panicked <=> arg >= len(self)
        /\ panicked => ret = None
        /\ ~panicked => ret = deref(self)[arg]

C14_Witness ==
    Alive /\ lastOp = "index_mut" /\ panicked /\ is_allocated(self)
          /\ arg < capacity(self) /\ self.data[arg] # uninit

\* C15: destruction finalizes exactly the elements of [0, len) in index order
\* and, on the heap, releases the buffer after the last finalization, with the
\* capacity the buffer was allocated or last reallocated with.
C15_Destruction ==
    [][(Alive /\ lastOp' = "drop") =>
          /\ \A i \in 1..len(self) :
                events'[i] = <<"drop_in_place", deref(self)[i - 1][1]>>
          /\ IF is_allocated(self)
             THEN /\ Len(events') = len(self) + 1
                  /\ events'[len(self) + 1] =
                        <<"dealloc", Cardinality(DOMAIN self.data)>>
             ELSE Len(events') = len(self)]_vars

C15_Witness ==
    /\ lastOp = "drop"
    /\ Len(events) >= 3
    /\ events[Len(events)][1] = "dealloc"
    /\ events[Len(events)][2] > N + 1
    /\ events[Len(events)][2] > Len(events) - 1

\* C16: a push whose allocation fails ends the process and nothing runs
\* afterwards; a push that returns has appended its value in full, and tag,
\* len, capacity and buffer fit together.
C16_PushIsAtomic ==
    [][/\ ~aborted
       /\ (lastOp' = "push" /\ ~aborted') =>
             /\ pushed' = pushed + 1
             /\ len(self') = len(self) + 1
             /\ \A i \in 0..(len(self) - 1) : deref(self')[i] = deref(self)[i]
             /\ deref(self')[len(self)] = Some(pushed')
             /\ len(self') <= capacity(self')
             /\ DOMAIN self'.data = 0..(capacity(self') - 1)
       /\ (lastOp' = "push" /\ aborted') =>
             (needs_alloc(self) /\ self' = self /\ pushed' = pushed)]_vars

C16_Witness ==
    aborted /\ lastOp = "push" /\ is_allocated(self)
            /\ len(self) = capacity(self) /\ pushed > N + 1

\* the key objects stored in the tree that are equal to the key <<k, _>>
StoredKeys(t, k) == {x \in NodeKeys(t.root) : x[1] = k}

\* C17: insert returns None and adds one to len() iff no equal key was in the
\* tree; otherwise it returns the old value and leaves the stored key and
\* len() alone.  len() is the number of distinct keys inserted.
C17_InsertCountsDistinctKeys ==
    /\ [](BinaryTree_len(tree) = Cardinality({k \in 1..MaxKey : tmap[k] # None}))
    /\ [][(top' = "insert" /\ tcalls' = tcalls + 1) =>
             IF tmap[tkey'[1]] = None
             THEN /\ tret' = None
                  /\ BinaryTree_len(tree') = BinaryTree_len(tree) + 1
                  /\ StoredKeys(tree', tkey'[1]) = {tkey'}
             ELSE /\ tret' = tmap[tkey'[1]]
                  /\ BinaryTree_len(tree') = BinaryTree_len(tree)
                  /\ StoredKeys(tree', tkey'[1]) = StoredKeys(tree, tkey'[1])
                  /\ StoredKeys(tree', tkey'[1]) = {tfirst[tkey'[1]][1]}]_vars

C17_Witness ==
    /\ top = "insert"
    /\ tret # None
    /\ tret # tmap[tkey[1]]
    /\ tfirst[tkey[1]] # Some(tkey)
    /\ BinaryTree_len(tree) >= 2
    /\ tcalls > BinaryTree_len(tree)

\* C18: get(k) is the value of the most recent insert with key k and None for
\* a key never inserted; Index returns the same value and panics when the key
\* is absent.
C18_TreeIsFiniteMap ==
    /\ \A key \in Keys :
          /\ BinaryTree_get(tree, key) = tmap[key[1]]
          /\ BinaryTree_index(tree, key).ret = tmap[key[1]]
          /\ BinaryTree_index(tree, key).panic <=> (tmap[key[1]] = None)
    /\ top \in {"get", "index"} => tret = tmap[tkey[1]]
    /\ top = "index" => (tpanicked <=> tmap[tkey[1]] = None)

C18_Witness ==
    /\ top = "get"
    /\ tret # None
    /\ BinaryTree_len(tree) = 3
    /\ tcalls > BinaryTree_len(tree)
    /\ tree.root[1].children[1] # None
    /\ tree.root[1].children[2] # None
    /\ key_gt(tkey, tree.root[1].key)

\* C19: after insert(element) the node holding element can be reached from
\* the head links and the element count has grown by one.
C19_InsertLinksNode ==
    /\ skLen = Len(skHeap)
    /\ \A p \in 1..Len(skHeap) : p \in Reachable(skHead, skHeap)

\* C20: Unallocated: len <= N, slots [0, len) hold a value and slots [len, N)
\* hold none.  Allocated: len <= cap, slots [0, len) hold a value and the
\* buffer has exactly cap slots.
C20_StorageInvariant ==
    Alive =>
        IF self.tag = "Unallocated"
        THEN /\ self.len <= N
             /\ DOMAIN self.data = 0..(N - 1)
             /\ \A i \in 0..(N - 1) : (self.data[i] # uninit) <=> (i < self.len)
        ELSE /\ self.len <= self.cap
             /\ \A i \in 0..(self.len - 1) : self.data[i] # uninit
             /\ DOMAIN self.data = 0..(self.cap - 1)

C20_Witness ==
    Alive /\ self.tag = "Unallocated" /\ lastOp = "swap_remove" /\ ret # None
          /\ self.len = N - 1

\* C21: pop and swap_remove change neither capacity() nor the representation
\* (no shrinking), and a push on an Allocated vector with len < capacity
\* writes into the buffer it has, without reallocating.
C21_RemovalKeepsCapacity ==
    [][/\ (Alive /\ lastOp' \in {"pop", "swap_remove"}) =>
             /\ self'.tag = self.tag
             /\ capacity(self') = capacity(self)
             /\ DOMAIN self'.data = DOMAIN self.data
       /\ (Alive /\ is_allocated(self) /\ len(self) < capacity(self) /\ PushStep) =>
             /\ capacity(self') = capacity(self)
             /\ self'.data = [self.data EXCEPT ![len(self)] = Some(pushed')]]_vars

C21_Witness ==
    Alive /\ lastOp = "push" /\ is_allocated(self) /\ capacity(self) = N + 1
          /\ len(self) = N /\ pushed > N + 1

\* C22: when an element finalizer panics partway through clear(), the vector
\* no longer holds, in [0, len), any element that clear() has finalized, so
\* that its destruction does not finalize one of them again.
C22_ClearIsPanicSafe ==
    (Alive /\ lastOp = "clear" /\ panicked) =>
        Range(fin) \cap Range(drop(self)) = {}

\* the number of nodes of a subtree
RECURSIVE NodeCount(_)
NodeCount(child) ==
    IF child = None THEN 0
    ELSE 1 + NodeCount(child[1].children[1]) + NodeCount(child[1].children[2])

\* every node of the subtree has only smaller keys to its left and only
\* greater keys to its right
RECURSIVE IsSearchTree(_)
IsSearchTree(child) ==
    \/ child = None
    \/ /\ \A x \in NodeKeys(child[1].children[1]) : key_lt(x, child[1].key)
       /\ \A x \in NodeKeys(child[1].children[2]) : key_gt(x, child[1].key)
       /\ IsSearchTree(child[1].children[1])
       /\ IsSearchTree(child[1].children[2])

\* C23: after any sequence of inserts every node has only smaller keys in its
\* left subtree and only greater keys in its right subtree, and no key is
\* stored in two nodes.
C23_SearchTreeOrder ==
    /\ IsSearchTree(tree.root)
    /\ NodeCount(tree.root) = Cardinality({x[1] : x \in NodeKeys(tree.root)})
    /\ NodeCount(tree.root) = Cardinality(NodeKeys(tree.root))

C23_Witness ==
    /\ top = "insert"
    /\ tcalls > BinaryTree_len(tree)
    /\ NodeCount(tree.root) = 3
    /\ tree.root[1].children[1] # None
    /\ tree.root[1].children[1][1].children[2] # None

\* C24: the level stored in every node made by insert is an index of the
\* link arrays of size L: 0 <= level < L, whatever the random draws were.
C24_LevelIsValidIndex ==
    \A p \in 1..Len(skHeap) : skHeap[p].level \in 0..(L - 1)

====
